---- MODULE Spec2Model ----
(***************************************************************************)
(* Model of the request lifecycle of @wlindabla/http_client:               *)
(*   - FetchRequest.handle / cancel and the five dispatch helpers          *)
(*   - safeFetch, the retry / timeout engine                               *)
(*   - the status helpers of utils and the body parsing of FetchResponse   *)
(* One FetchRequest instance is modelled.  Listeners of the event          *)
(* dispatcher, the delegate and the network are the environment: what a    *)
(* listener does with the event it receives and what the network answers   *)
(* are chosen nondeterministically.                                        *)
(***************************************************************************)
EXTENDS Integers, Sequences, FiniteSets, TLC

(***************************************************************************)
(* Bounds of the model                                                     *)
(***************************************************************************)
\* largest retryCount a caller configures in the lifecycle specification
MaxRetryCount == 2
\* largest retryCount a caller configures in the engine-only specification
MaxEngineRetryCount == 3

\* the most cancel() calls made on one request
MaxCancelCalls == 2

\* the largest status code handed to the classifier
MaxStatusCode == 610

(***************************************************************************)
(* Program constants                                                       *)
(***************************************************************************)
DefaultTimeout == 45000
DefaultRetryCount == 3
MinAttempts == 2
RaisedRetryCount == 3
StatusBackoffUnit == 500
NetworkBackoffUnit == 1000
UnexpectedBackoffUnit == 500

(***************************************************************************)
(* Values                                                                  *)
(***************************************************************************)
\* an optional option value is a set: {} when the caller omitted it
Undefined == {}
Given(v) == {v}
OrDefault(opt, d) == IF opt = Undefined THEN d ELSE CHOOSE v \in opt : TRUE

\* status codes answered by the network in the lifecycle and engine runs
WireStatuses == {101, 200, 302, 404, 503, 600}
\* what the body of a wire response is: its content type and whether the
\* text of the body is valid JSON
WireBodies == { [ctype |-> "json", validJson |-> TRUE],
                [ctype |-> "json", validJson |-> FALSE],
                [ctype |-> "text", validJson |-> FALSE] }
WireResponses == [status : WireStatuses, body : WireBodies]

\* status codes of the wrappers a listener supplies
ListenerStatuses == {200, 500}

\* a response wrapper (HttpResponse): who built it and the status it reports
NoResponse == [origin |-> "null", status |-> 0]
Wrapper(origin, status) == [origin |-> origin, status |-> status]
ListenerWrappers(origin) == {Wrapper(origin, s) : s \in ListenerStatuses}

\* an error value: HttpFetchError(message, url, options) or a foreign Error
ForeignError(name, message) ==
    [name |-> name, message |-> message, url |-> Undefined, attempt |-> Undefined,
     cause |-> Undefined]

NoError == ForeignError("null", "")
ListenerError == ForeignError("Error", "thrown by a listener")
RejectReason == ForeignError("Error", "rejected by a listener")

\* the options argument of HttpFetchError: omitted, or { cause: error }
NoOptions == [attempt |-> Undefined, cause |-> Undefined]
WithCause(caught) == [attempt |-> Undefined, cause |-> Given(caught)]

\* constructor of HttpFetchError: attempt is options?.attempt, cause is
\* options?.cause
HttpFetchError(message, url, options) ==
    [name |-> "HttpFetchError", message |-> message, url |-> Given(url),
     attempt |-> options.attempt, cause |-> options.cause]

MsgCancelled == "Request was cancelled"
MsgCancelledByUser == "Request was cancelled by user"
MsgTimeout == "Request timed out because the server did not respond within the specified time."
MsgNetwork == "Network error after attempts"
MsgUnexpected == "Unexpected error after attempts"
MsgFallthrough == "Unexpected fallthrough in httpFetchHandler"

(***************************************************************************)
(* utils: status helpers                                                   *)
(***************************************************************************)
isClientError(statusCode) == statusCode >= 400 /\ statusCode < 500

isServerError(statusCode) == statusCode >= 500 /\ statusCode < 600

mapStatusToResponseType(statusCode) ==
    IF statusCode >= 200 /\ statusCode < 300 THEN "success"
    ELSE IF statusCode >= 100 /\ statusCode < 200 THEN "info"
    ELSE IF statusCode >= 300 /\ statusCode < 400 THEN "redirect"
    ELSE "error"

(***************************************************************************)
(* FetchResponse: predicates of a wrapper and body parsing                 *)
(***************************************************************************)
serverInfo(w) == w.status < 200

succeeded(w) == w.status >= 200 /\ w.status <= 299

clientError(w) == isClientError(w.status)

serverError(w) == isServerError(w.status)

\* Response.redirected of the wire response: the fetch followed a redirect
redirected(w) == w.redirected

failed(w) == ~succeeded(w) /\ ~redirected(w) /\ ~serverInfo(w)

\* the status codes and wire responses handed to the classifier
StatusCodes == 0..MaxStatusCode

ClassifiedResponses == [status : StatusCodes, redirected : BOOLEAN]

NoWireResponse == [status |-> 0, redirected |-> FALSE]

\* nothing classified yet
Unclassified(response) ==
    [response |-> response, done |-> FALSE, type |-> "none",
     isClientError |-> FALSE, isServerError |-> FALSE,
     statusCode |-> 0, serverInfo |-> FALSE, succeeded |-> FALSE,
     clientError |-> FALSE, serverError |-> FALSE, redirected |-> FALSE,
     failed |-> FALSE]

\* what the functions of utils and the getters of a wrapper built on the
\* response return
Classification(response) ==
    [response |-> response, done |-> TRUE,
     type |-> mapStatusToResponseType(response.status),
     isClientError |-> isClientError(response.status),
     isServerError |-> isServerError(response.status),
     statusCode |-> response.status,
     serverInfo |-> serverInfo(response),
     succeeded |-> succeeded(response),
     clientError |-> clientError(response),
     serverError |-> serverError(response),
     redirected |-> redirected(response),
     failed |-> failed(response)]

\* Response.ok of a wire response: its status is in 200..299
ResponseOk(response) == response.status >= 200 /\ response.status <= 299

\* the fields of a wrapper: `response` of MapStatusToResponseType and
\* `_response` of FetchResponse, which the getter originalResponse returns
NewWrapper(response) ==
    [response |-> response, originalResponse |-> response, replaced |-> FALSE]

\* setOriginalResponse(_newResponse): this._response = _newResponse
setOriginalResponse(w, newResponse) ==
    [w EXCEPT !.originalResponse = newResponse, !.replaced = TRUE]

\* the getters of a wrapper; headers and statusText are given as the wire
\* response whose headers and status text they return
statusCodeOf(w) == w.response.status
statusOf(w) == statusCodeOf(w)
okOf(w) == ResponseOk(w.originalResponse)
headersOf(w) == w.response
statusTextOf(w) == w.originalResponse

\* the wire responses handed to setOriginalResponse
ReplacementResponses == [status : {200, 404, 503}, redirected : {FALSE}]

\* responseTypeHandle: response.json() throws on a body that is not JSON,
\* response.text() never throws
responseTypeHandleThrows(responseType, response) ==
    responseType = "json" /\ ~response.body.validJson

\* parseHttpErrorResponse: a JSON content type is parsed with
\* responseTypeHandle("json"), any other one is read as text or status text
parseHttpErrorResponseThrows(response) ==
    IF response.body.ctype = "json"
    THEN responseTypeHandleThrows("json", response)
    ELSE FALSE

(***************************************************************************)
(* State                                                                   *)
(***************************************************************************)
VARIABLES
    opts,            \* _fetchRequestOptions: the options of the request
    pc,              \* where handle() / safeFetch() stands
    isCancelled,     \* FetchRequest._isCancelled
    aborted,         \* _abortController.signal.aborted
    cancelledWhen,   \* the part of handle() in which the effective cancel() landed
    cancelLog,       \* what each cancel() call did: "tripped" or "ignored"
    interception,    \* the requestInterception promise of dispatchRequestEvent
    requestEvent,    \* the REQUEST event as its listeners left it
    beforeSendEvent, \* the BEFORE_SEND event: its options and what was merged in
    mutators,        \* the mutating calls the registered listeners make
    classified,      \* a wire response and what the classifier and a wrapper say of it
    wrapper,         \* the two response fields of a wrapper (HttpResponse)
    input,           \* FetchRequest._input, the target of the request
    fetchResponse,   \* local of handle(): the wrapper obtained so far
    error,           \* local of handle(): the error caught, or the one raised
    raisedBy,        \* who raised the error handle() caught
    errorEvent,      \* the ERROR event of dispatchErrorEvent as listeners left it
    responseAction,  \* what the RESPONSE listeners did with their event
    responseEvent,   \* the RESPONSE event: the wrapper handed in and how it was left
    terminateEvent,  \* the (response, error) carried by the TERMINATE event
    trace,           \* dispatches, delegate hooks and fetch() calls of this handle()
    sf,              \* locals of safeFetch()
    logging,         \* whether attemptLog is kept in this run
    attemptLog,      \* how each finished attempt of this safeFetch() ended
    outcome,         \* how handle() settled: pending, resolved or rejected
    settled          \* the wrapper handle() resolved with / the error it rejected with

\* what safeFetch and dispatchBeforeSendEvent leave alone
lifecycleVars == <<isCancelled, aborted, cancelledWhen, cancelLog, interception,
                   requestEvent, input, errorEvent, responseAction, responseEvent,
                   terminateEvent, outcome, settled, logging, mutators,
                   classified, wrapper>>
orchestratorVars == <<lifecycleVars, beforeSendEvent>>
vars == <<opts, pc, isCancelled, aborted, cancelledWhen, cancelLog, interception,
          requestEvent, beforeSendEvent, mutators, classified, wrapper, input, fetchResponse, error,
          raisedBy, errorEvent, responseAction, responseEvent, terminateEvent, trace, sf, logging,
          attemptLog, outcome, settled>>

Count(name, seq) == Cardinality({i \in 1..Len(seq) : seq[i] = name})
NetCalls == Count("fetch", trace)

NoPromise == [state |-> "none", reason |-> NoError, value |-> NoResponse]
NoRequestEvent == [dispatched |-> FALSE, response |-> NoResponse, defaultPrevented |-> FALSE]
NoErrorEvent == [dispatched |-> FALSE, response |-> NoResponse, recovered |-> FALSE,
                 defaultPrevented |-> FALSE]
NoTerminateEvent == [dispatched |-> FALSE, response |-> NoResponse, error |-> NoError]
NoResponseEvent == [dispatched |-> FALSE, handedIn |-> NoResponse, response |-> NoResponse,
                    defaultPrevented |-> FALSE]

(***************************************************************************)
(* Urls, header objects and option objects                                 *)
(***************************************************************************)
\* the configured url and the one a REQUEST listener passes to setUrl
Urls == {"url", "rewritten"}

\* the object {}
EmptyObject == [name \in {} |-> ""]

\* the object {...a, ...b}
Spread(a, b) ==
    [name \in DOMAIN a \cup DOMAIN b |-> IF name \in DOMAIN b THEN b[name] ELSE a[name]]

\* the object after delete object[name]
Without(object, name) == [n \in DOMAIN object \ {name} |-> object[n]]

\* (object || {})
OrEmpty(opt) == OrDefault(opt, EmptyObject)

\* the headers safeFetch uses when the options carry none
DefaultHeaders ==
    ("Accept" :> "application/json") @@ ("Content-Type" :> "application/json")
        @@ ("X-Requested-With" :> "XMLHttpRequest")

\* headers a caller configures
ConfiguredHeaders == ("Authorization" :> "configured") @@ ("X-Trace" :> "configured")

\* the arguments listeners pass to mergeFetchOptions
ListenerPatches ==
    [headers : {Undefined, Given("Authorization" :> "listener"),
                Given("Content-Type" :> "listener")},
     credentials : {Undefined, Given("include")}]

\* variant: a plain spread, the headers of the listener replace the others
mergeFetchOptionsShallow(fetchOptions, options) ==
    [fetchOptions EXCEPT
        !.credentials = IF options.credentials = Undefined THEN @ ELSE options.credentials,
        !.headers = IF options.headers = Undefined THEN @ ELSE options.headers]

\* FetchRequestEvent.mergeFetchOptions(options) on the options of the event
mergeFetchOptions(fetchOptions, options) ==
    [fetchOptions EXCEPT
        !.credentials = IF options.credentials = Undefined THEN @ ELSE options.credentials,
        !.headers = Given(Spread(OrEmpty(@), OrEmpty(options.headers)))]

NoBeforeSendEvent(fetchOptions) ==
    [dispatched |-> FALSE, constructedWith |-> fetchOptions, merged |-> Undefined,
     response |-> NoResponse]

NoFrame == [retryCount |-> 0, timeout |-> 0, keepalive |-> FALSE,
            retryOnStatusCode |-> FALSE, responseType |-> "json",
            attempt |-> 0, timerArmed |-> FALSE, signal |-> "none",
            url |-> "url", headers |-> EmptyObject, credentials |-> Undefined]

(***************************************************************************)
(* safeFetch: normalisation of the options (destructuring defaults, then   *)
(* the keepalive / retryCount adjustment)                                  *)
(***************************************************************************)
\* variant: the floor test is off by one, a configured 1 is left alone
NormalizedRetryCountOffByOne(o) ==
    LET retryCount == OrDefault(o.retryCount, DefaultRetryCount) IN
    IF o.keepalive THEN 1
    ELSE IF retryCount < MinAttempts - 1 /\ o.retryCount # Undefined THEN RaisedRetryCount
    ELSE retryCount

NormalizedRetryCount(o) ==
    LET retryCount == OrDefault(o.retryCount, DefaultRetryCount) IN
    IF o.keepalive THEN 1
    ELSE IF retryCount < MinAttempts /\ o.retryCount # Undefined THEN RaisedRetryCount
    ELSE retryCount

NormalizedTimeout(o) ==
    LET timeout == OrDefault(o.timeout, DefaultTimeout) IN
    IF o.keepalive THEN 0 ELSE timeout

\* headers_request: the headers of the options, the default ones when
\* omitted, without Content-Type when the body is a FormData
RequestHeaders(o) ==
    LET headers == OrDefault(o.headers, DefaultHeaders) IN
    IF o.formData THEN Without(headers, "Content-Type") ELSE headers

\* entry of safeFetch(fetchRequestOptions) up to the attempt loop
SafeFetchEnter ==
    /\ pc = "safeFetch"
    /\ sf' = [retryCount |-> NormalizedRetryCount(opts),
              timeout |-> NormalizedTimeout(opts),
              keepalive |-> opts.keepalive,
              retryOnStatusCode |-> opts.retryOnStatusCode,
              responseType |-> opts.responseType,
              attempt |-> 0,
              timerArmed |-> FALSE,
              signal |-> opts.signal,
              url |-> opts.url,
              headers |-> RequestHeaders(opts),
              credentials |-> opts.credentials]
    /\ attemptLog' = <<>>
    /\ trace' = Append(trace, "safeFetch")
    /\ pc' = "attempt"
    /\ UNCHANGED <<opts, fetchResponse, error, raisedBy>>
    /\ UNCHANGED orchestratorVars

(***************************************************************************)
(* safeFetch: the attempt loop                                             *)
(***************************************************************************)
\* variant: the test compares with retryCount, so no attempt is ever the last
isLastAttemptPastTheEnd == sf.attempt = sf.retryCount

isLastAttempt == sf.attempt = sf.retryCount - 1

\* variant: the timer is armed whatever the timeout is
ArmsTimerWhateverTimeout(f) == ~f.keepalive

\* the per-attempt timer is armed iff keepalive is off and timeout > 0
ArmsTimer(f) == ~f.keepalive /\ f.timeout > 0

\* how a finished attempt is remembered
LogEntry(event, status, threw, wait) ==
    [event |-> event, class |-> status, threw |-> threw, wait |-> wait]

StatusClass(statusCode) ==
    IF mapStatusToResponseType(statusCode) # "error"
    THEN mapStatusToResponseType(statusCode)
    ELSE IF isClientError(statusCode) THEN "clientError"
    ELSE IF isServerError(statusCode) THEN "serverError"
    ELSE "otherError"

\* loop head: for (attempt = 0; attempt < retryCount; ++attempt), the timer
\* of the attempt and the call of fetch(url, fetchParams)
AttemptStart ==
    /\ pc = "attempt"
    /\ IF sf.attempt < sf.retryCount
       THEN /\ sf' = [sf EXCEPT !.timerArmed = ArmsTimer(sf),
                                !.signal = IF ArmsTimer(sf) THEN "attempt" ELSE @]
            /\ trace' = Append(trace, "fetch")
            /\ pc' = "inflight"
            /\ UNCHANGED <<error, raisedBy>>
       ELSE /\ error' = HttpFetchError(MsgFallthrough, sf.url, NoOptions)
            /\ raisedBy' = "engine"
            /\ pc' = "error"
            /\ UNCHANGED <<sf, trace>>
    /\ UNCHANGED <<opts, fetchResponse, attemptLog>>
    /\ UNCHANGED orchestratorVars

Logged(entry) == IF logging THEN Append(attemptLog, entry) ELSE attemptLog

\* return of safeFetch with a wrapper
EngineReturn(w, entry) ==
    /\ fetchResponse' = w
    /\ attemptLog' = Logged(entry)
    /\ sf' = [sf EXCEPT !.timerArmed = FALSE]
    /\ pc' = "response"
    /\ UNCHANGED <<error, raisedBy>>

\* throw of an HttpFetchError out of safeFetch
EngineThrow(message, entry) ==
    /\ error' = HttpFetchError(message, sf.url, WithCause(entry.event))
    /\ raisedBy' = "engine"
    /\ attemptLog' = Logged(entry)
    /\ sf' = [sf EXCEPT !.timerArmed = FALSE]
    /\ pc' = "error"
    /\ UNCHANGED fetchResponse

\* await new Promise(resolve => setTimeout(resolve, ms)); continue
EngineWait(entry) ==
    /\ attemptLog' = Logged(entry)
    /\ sf' = [sf EXCEPT !.timerArmed = FALSE]
    /\ pc' = "backoff"
    /\ UNCHANGED <<fetchResponse, error, raisedBy>>

\* end of the catch block without a wait: the loop goes on at once
EngineNextAttempt(entry) ==
    /\ attemptLog' = Logged(entry)
    /\ sf' = [sf EXCEPT !.timerArmed = FALSE, !.attempt = @ + 1]
    /\ pc' = "attempt"
    /\ UNCHANGED <<fetchResponse, error, raisedBy>>

\* catch (error) of the attempt: the three branches on the kind of error

\* variant: the AbortError test misses and the timeout lands in the last branch
CatchAbortErrorAsUnexpected(event, status) ==
    IF isLastAttempt
    THEN EngineThrow(MsgUnexpected, LogEntry(event, status, TRUE, 0))
    ELSE EngineWait(LogEntry(event, status, TRUE, UnexpectedBackoffUnit * (sf.attempt + 1)))

CatchAbortError(event, status) ==
    IF isLastAttempt
    THEN EngineThrow(MsgTimeout, LogEntry(event, status, TRUE, 0))
    ELSE EngineNextAttempt(LogEntry(event, status, TRUE, 0))

CatchNetworkError(event, status) ==
    IF isLastAttempt
    THEN EngineThrow(MsgNetwork, LogEntry(event, status, TRUE, 0))
    ELSE EngineWait(LogEntry(event, status, TRUE, NetworkBackoffUnit * (sf.attempt + 1)))

CatchUnexpectedError(event, status) ==
    IF isLastAttempt
    THEN EngineThrow(MsgUnexpected, LogEntry(event, status, TRUE, 0))
    ELSE EngineWait(LogEntry(event, status, TRUE, UnexpectedBackoffUnit * (sf.attempt + 1)))

\* the condition under which an error status is returned instead of retried
ReturnsErrorStatus(statusCode) ==
    \/ isClientError(statusCode)
    \/ (isServerError(statusCode) /\ ~sf.retryOnStatusCode)
    \/ sf.attempt = sf.retryCount - 1

\* the fetch is bound to an aborted cancellation token: it can only reject
AbortedByToken == sf.signal = "token" /\ aborted

\* fetch() resolved with a wire response
FetchResponds ==
    /\ pc = "inflight"
    /\ ~AbortedByToken
    /\ \E response \in WireResponses :
         LET statusCode == response.status
             class == StatusClass(statusCode) IN
         IF mapStatusToResponseType(statusCode) = "error"
         THEN IF ReturnsErrorStatus(statusCode)
              THEN IF parseHttpErrorResponseThrows(response)
                   THEN CatchUnexpectedError("response", class)
                   ELSE EngineReturn(Wrapper("wire", statusCode),
                                     LogEntry("response", class, FALSE, 0))
              ELSE EngineWait(LogEntry("response", class, FALSE,
                                       StatusBackoffUnit * (sf.attempt + 1)))
         ELSE IF responseTypeHandleThrows(sf.responseType, response)
              THEN CatchUnexpectedError("response", class)
              ELSE EngineReturn(Wrapper("wire", statusCode),
                                LogEntry("response", class, FALSE, 0))
    /\ UNCHANGED <<opts, trace>>
    /\ UNCHANGED orchestratorVars

\* variant: the callback of the timer does not abort the controller
TimerAbortsNever == FALSE

\* setTimeout(() => controller.abort(), timeout): an armed timer aborts the
\* fetch of its attempt
TimerAborts == sf.timerArmed

\* the per-attempt timer fired: controller.abort() rejects fetch with AbortError
FetchTimesOut ==
    /\ pc = "inflight"
    /\ TimerAborts
    /\ CatchAbortError("timer", "none")
    /\ UNCHANGED <<opts, trace>>
    /\ UNCHANGED orchestratorVars

\* the cancellation token the fetch is bound to was aborted: AbortError
FetchAbortedByToken ==
    /\ pc = "inflight"
    /\ AbortedByToken
    /\ CatchAbortError("token", "none")
    /\ UNCHANGED <<opts, trace>>
    /\ UNCHANGED orchestratorVars

\* fetch() rejected with a "Failed to fetch" / "NetworkError" message
FetchFailsNetwork ==
    /\ pc = "inflight"
    /\ ~AbortedByToken
    /\ CatchNetworkError("network", "none")
    /\ UNCHANGED <<opts, trace>>
    /\ UNCHANGED orchestratorVars

\* fetch() rejected with any other error (e.g. "fetch failed" of Node)
FetchFailsOtherwise ==
    /\ pc = "inflight"
    /\ ~AbortedByToken
    /\ CatchUnexpectedError("other", "none")
    /\ UNCHANGED <<opts, trace>>
    /\ UNCHANGED orchestratorVars

\* the backoff timer elapsed: continue, ++attempt
BackoffElapsed ==
    /\ pc = "backoff"
    /\ sf' = [sf EXCEPT !.attempt = @ + 1]
    /\ pc' = "attempt"
    /\ UNCHANGED <<opts, fetchResponse, error, raisedBy, trace, attemptLog>>
    /\ UNCHANGED orchestratorVars

(***************************************************************************)
(* FetchRequest: the requestInterception promise                           *)
(***************************************************************************)
NoSettlement == [response |-> NoResponse, error |-> NoError]

\* the wrapper a REQUEST listener passes to event.resolve(value)
ResolvedValue == Wrapper("resolve", 200)

\* resolve / reject of a promise only act on a pending promise
PromiseResolve(p, value) ==
    IF p.state = "pending"
    THEN [state |-> "resolved", reason |-> NoError, value |-> value]
    ELSE p

PromiseReject(p, reason) ==
    IF p.state = "pending"
    THEN [state |-> "rejected", reason |-> reason, value |-> NoResponse]
    ELSE p

(***************************************************************************)
(* FetchRequest.handle                                                     *)
(***************************************************************************)
\* variant: the cancelled flag is only looked at by the first call
ThrowsWhenCancelledOnFirstCall == isCancelled /\ pc = "idle"

\* if (this._isCancelled) throw new HttpFetchError("Request was cancelled", ...)
ThrowsWhenCancelled == isCancelled

\* handle() is called: the cancelled check, prepareRequest and the creation
\* of the interception promise of dispatchRequestEvent; it is called on a
\* new instance, and again on an instance that has been cancelled
HandleCall ==
    /\ pc = "idle" \/ (pc = "done" /\ isCancelled)
    /\ requestEvent' = NoRequestEvent
    /\ responseEvent' = NoResponseEvent
    /\ beforeSendEvent' = NoBeforeSendEvent(opts)
    /\ errorEvent' = NoErrorEvent
    /\ responseAction' = "none"
    /\ terminateEvent' = NoTerminateEvent
    /\ fetchResponse' = NoResponse
    /\ error' = NoError
    /\ raisedBy' = "none"
    /\ sf' = NoFrame
    /\ attemptLog' = <<>>
    /\ IF ThrowsWhenCancelled
       THEN /\ outcome' = "rejected"
            /\ settled' = [response |-> NoResponse,
                           error |-> HttpFetchError(MsgCancelled, input, NoOptions)]
            /\ trace' = <<>>
            /\ pc' = "done"
            /\ UNCHANGED interception
       ELSE /\ outcome' = "pending"
            /\ settled' = NoSettlement
            /\ trace' = <<"prepareRequest">>
            /\ interception' = [state |-> "pending", reason |-> NoError, value |-> NoResponse]
            /\ pc' = "request"
    /\ UNCHANGED <<opts, isCancelled, aborted, cancelledWhen, cancelLog,
                   logging, mutators, classified, wrapper, input>>

\* variant: the interception promise is not awaited
PhaseAfterRequestNotAwaited(prevented) == "started"

\* if (event.isDefaultPrevented()) await requestInterception
PhaseAfterRequest(prevented) == IF prevented THEN "intercepted" ELSE "started"

\* dispatchRequestEvent: the REQUEST listeners run on the event; they may
\* set a response, prevent the default, rewrite the url and call
\* event.resolve() or event.reject()
DispatchRequest ==
    /\ pc = "request"
    /\ \E response \in {NoResponse} \cup ListenerWrappers("REQUEST"),
          prevented \in BOOLEAN,
          settle \in {"none", "resolve", "reject"},
          url \in IF "setUrl" \in mutators THEN Urls ELSE {input} :
         /\ requestEvent' = [dispatched |-> TRUE, response |-> response,
                             defaultPrevented |-> prevented]
         /\ interception' = CASE settle = "resolve" -> PromiseResolve(interception, ResolvedValue)
                              [] settle = "reject" -> PromiseReject(interception, RejectReason)
                              [] OTHER -> interception
         /\ input' = url
         /\ pc' = PhaseAfterRequest(prevented)
    /\ trace' = Append(trace, "REQUEST")
    /\ UNCHANGED <<opts, isCancelled, aborted, cancelledWhen, cancelLog,
                   logging, mutators, classified, wrapper, beforeSendEvent,
                   fetchResponse, error, raisedBy, errorEvent, responseAction, responseEvent,
                   terminateEvent, sf, attemptLog, outcome, settled>>

\* a listener that prevented the default calls event.resolve() later on
InterceptionResolved ==
    /\ pc = "intercepted"
    /\ interception.state = "pending"
    /\ interception' = PromiseResolve(interception, ResolvedValue)
    /\ UNCHANGED <<opts, pc, isCancelled, aborted, cancelledWhen, cancelLog,
                   logging, mutators, classified, wrapper, beforeSendEvent,
                   requestEvent, input, fetchResponse, error, raisedBy, errorEvent,
                   responseAction, responseEvent, terminateEvent, trace, sf, attemptLog, outcome,
                   settled>>

\* a listener that prevented the default calls event.reject() later on
InterceptionRejected ==
    /\ pc = "intercepted"
    /\ interception.state = "pending"
    /\ interception' = PromiseReject(interception, RejectReason)
    /\ UNCHANGED <<opts, pc, isCancelled, aborted, cancelledWhen, cancelLog,
                   logging, mutators, classified, wrapper, beforeSendEvent,
                   requestEvent, input, fetchResponse, error, raisedBy, errorEvent,
                   responseAction, responseEvent, terminateEvent, trace, sf, attemptLog, outcome,
                   settled>>

\* await requestInterception: a rejection leaves handle() before its try
AwaitInterception ==
    /\ pc = "intercepted"
    /\ interception.state # "pending"
    /\ IF interception.state = "rejected"
       THEN /\ outcome' = "rejected"
            /\ settled' = [response |-> NoResponse, error |-> interception.reason]
            /\ pc' = "done"
       ELSE /\ pc' = "started"
            /\ UNCHANGED <<outcome, settled>>
    /\ UNCHANGED <<opts, isCancelled, aborted, cancelledWhen, cancelLog,
                   logging, mutators, classified, wrapper, beforeSendEvent,
                   interception, requestEvent, input, fetchResponse, error, raisedBy,
                   errorEvent, responseAction, responseEvent, terminateEvent, trace, sf,
                   attemptLog>>

\* variant: the response slot is mistaken for the default-prevented flag
hasResponseFromPrevented(event) == event.defaultPrevented

\* hasResponse() of an event that carries a response slot
hasResponse(event) == event.response # NoResponse

\* variant: a response supplied by a listener does not keep the engine from
\* being run
PhaseAfterSuppliedResponseViaEngine == "safeFetch"

\* a REQUEST or BEFORE_SEND listener supplied the response: fetchResponse is
\* assigned from the event and control goes on to dispatchResponseEvent
PhaseAfterSuppliedResponse == "response"

\* try { requestStarted; if (requestEvent.hasResponse()) ... else ...
EnterTry ==
    /\ pc = "started"
    /\ trace' = Append(trace, "requestStarted")
    /\ IF hasResponse(requestEvent)
       THEN /\ fetchResponse' = requestEvent.response
            /\ pc' = PhaseAfterSuppliedResponse
       ELSE /\ pc' = "beforeSend"
            /\ UNCHANGED fetchResponse
    /\ UNCHANGED <<opts, error, raisedBy, sf, attemptLog>>
    /\ UNCHANGED orchestratorVars

\* dispatchBeforeSendEvent and the branch on its response; without a
\* response the signal of the abort controller is put in the options and
\* safeFetch is called
DispatchBeforeSend ==
    /\ pc = "beforeSend"
    /\ trace' = Append(trace, "BEFORE_SEND")
    /\ \E act \in {"none", "setResponse", "throw"},
          merged \in {Undefined} \cup
                     (IF "mergeFetchOptions" \in mutators
                      THEN {Given(options) : options \in ListenerPatches}
                      ELSE {}) :
         LET fetchOptions ==
                 IF merged = Undefined THEN opts
                 ELSE mergeFetchOptions(opts, CHOOSE options \in merged : TRUE)
         IN
         /\ CASE act = "throw" ->
                /\ error' = ListenerError
                /\ raisedBy' = "listener"
                /\ pc' = "error"
                /\ UNCHANGED <<opts, fetchResponse>>
           [] act = "setResponse" ->
                /\ \E w \in ListenerWrappers("BEFORE_SEND") : fetchResponse' = w
                /\ opts' = fetchOptions
                /\ pc' = PhaseAfterSuppliedResponse
                /\ UNCHANGED <<error, raisedBy>>
           [] OTHER ->
                /\ opts' = [fetchOptions EXCEPT !.signal = "token"]
                /\ pc' = "safeFetch"
                /\ UNCHANGED <<fetchResponse, error, raisedBy>>
         /\ beforeSendEvent' = [dispatched |-> TRUE, constructedWith |-> opts,
                                merged |-> merged,
                                response |-> IF act = "setResponse"
                                             THEN fetchResponse' ELSE NoResponse]
    /\ UNCHANGED <<sf, attemptLog>>
    /\ UNCHANGED lifecycleVars

\* variant: the default-prevented flag of the event is not looked at
ResponseHookWhateverPrevented(prevented, w) ==
    IF succeeded(w) \/ serverInfo(w) THEN "requestSucceededWithResponse"
    ELSE "requestFailedWithResponse"

\* the delegate hook dispatchResponseEvent reports to
ResponseHook(prevented, w) ==
    IF prevented THEN "requestPreventedHandlingResponse"
    ELSE IF succeeded(w) \/ serverInfo(w) THEN "requestSucceededWithResponse"
    ELSE "requestFailedWithResponse"

\* dispatchResponseEvent: the RESPONSE listeners may replace the wrapper,
\* prevent the default or throw; the hook is chosen on the wrapper handed
\* in, the wrapper of the event is returned
DispatchResponse ==
    /\ pc = "response"
    /\ \E act \in {"kept", "replaced", "threw"}, prevented \in BOOLEAN :
         /\ responseAction' = act
         /\ IF act = "threw"
            THEN /\ ~prevented
                 /\ trace' = Append(trace, "RESPONSE")
                 /\ responseEvent' = [dispatched |-> TRUE, handedIn |-> fetchResponse,
                                      response |-> fetchResponse,
                                      defaultPrevented |-> prevented]
                 /\ error' = ListenerError
                 /\ raisedBy' = "listener"
                 /\ pc' = "error"
                 /\ UNCHANGED fetchResponse
            ELSE /\ trace' = trace \o <<"RESPONSE", ResponseHook(prevented, fetchResponse)>>
                 /\ IF act = "replaced"
                    THEN \E w \in ListenerWrappers("RESPONSE") : fetchResponse' = w
                    ELSE UNCHANGED fetchResponse
                 /\ responseEvent' = [dispatched |-> TRUE, handedIn |-> fetchResponse,
                                      response |-> fetchResponse',
                                      defaultPrevented |-> prevented]
                 /\ pc' = "finally"
                 /\ UNCHANGED <<error, raisedBy>>
    /\ UNCHANGED <<opts, isCancelled, aborted, cancelledWhen, cancelLog,
                   logging, mutators, classified, wrapper, beforeSendEvent,
                   interception, requestEvent, input, errorEvent, terminateEvent,
                   sf, attemptLog, outcome, settled>>

\* variant: recovery is only honoured when the default was prevented too
isRecoveredWhenPrevented(event) ==
    event.recovered /\ hasResponse(event) /\ event.defaultPrevented

\* errorEvent.isRecovered() && errorEvent.hasResponse()
isRecovered(event) == event.recovered /\ hasResponse(event)

\* variant: a recovered error is routed through the RESPONSE phase
PhaseAfterRecoveryViaResponse == "response"

\* a recovered error returns from the catch block: only finally is left
PhaseAfterRecovery == "finally"

\* catch (err): dispatchErrorEvent; the ERROR listeners may attach a
\* response (which marks the event recovered) and prevent the default
DispatchError ==
    /\ pc = "error"
    /\ trace' = Append(trace, "ERROR")
    /\ \E response \in {NoResponse} \cup ListenerWrappers("ERROR"), prevented \in BOOLEAN :
         LET event == [dispatched |-> TRUE, response |-> response,
                       recovered |-> response # NoResponse,
                       defaultPrevented |-> prevented] IN
         /\ errorEvent' = event
         /\ IF isRecovered(event)
            THEN /\ fetchResponse' = event.response
                 /\ error' = NoError
                 /\ pc' = PhaseAfterRecovery
            ELSE /\ pc' = "delegateError"
                 /\ UNCHANGED <<fetchResponse, error>>
    /\ UNCHANGED <<opts, isCancelled, aborted, cancelledWhen, cancelLog,
                   logging, mutators, classified, wrapper, beforeSendEvent,
                   interception, requestEvent, input, raisedBy, responseAction, responseEvent,
                   terminateEvent, sf, attemptLog, outcome, settled>>

\* willDelegateErrorHandling: a second ERROR event is dispatched and the
\* delegate is told of the error unless that event was default-prevented;
\* then the error is thrown again
WillDelegateErrorHandling ==
    /\ pc = "delegateError"
    /\ \E prevented \in BOOLEAN :
         trace' = IF prevented THEN Append(trace, "ERROR")
                  ELSE trace \o <<"ERROR", "requestErrored">>
    /\ pc' = "finally"
    /\ UNCHANGED <<opts, fetchResponse, error, raisedBy, sf, attemptLog>>
    /\ UNCHANGED orchestratorVars

\* TerminateEvent.isSuccessful()
isSuccessful(event) == event.error = NoError /\ event.response # NoResponse

\* finally: dispatchTerminateEvent(fetchResponse, error), requestFinished,
\* and handle() settles with the value returned or the error thrown
Finally ==
    /\ pc = "finally"
    /\ trace' = trace \o <<"TERMINATE", "requestFinished">>
    /\ terminateEvent' = [dispatched |-> TRUE, response |-> fetchResponse, error |-> error]
    /\ IF error = NoError
       THEN /\ outcome' = "resolved"
            /\ settled' = [response |-> fetchResponse, error |-> NoError]
       ELSE /\ outcome' = "rejected"
            /\ settled' = [response |-> NoResponse, error |-> error]
    /\ pc' = "done"
    /\ UNCHANGED <<opts, isCancelled, aborted, cancelledWhen, cancelLog,
                   logging, mutators, classified, wrapper, beforeSendEvent,
                   interception, requestEvent, input, fetchResponse, error, raisedBy,
                   errorEvent, responseAction, responseEvent, sf, attemptLog>>

(***************************************************************************)
(* FetchRequest.cancel / isCancelled                                       *)
(***************************************************************************)
\* the part of handle() a cancel() lands in
HandlePhase ==
    CASE pc = "idle" -> "before"
      [] pc \in {"request", "intercepted"} -> "request"
      [] pc \in {"started", "beforeSend", "safeFetch", "response"} -> "pipeline"
      [] pc \in {"attempt", "inflight", "backoff"} -> "engine"
      [] pc \in {"error", "delegateError", "finally"} -> "closing"
      [] OTHER -> "after"

\* variant: cancel() without its guard, every call aborts and rejects again
CancelUnguarded ==
    /\ Len(cancelLog) < MaxCancelCalls
    /\ isCancelled' = TRUE
    /\ aborted' = TRUE
    /\ interception' = PromiseReject(interception,
                                     HttpFetchError(MsgCancelledByUser, input, NoOptions))
    /\ cancelledWhen' = IF isCancelled THEN cancelledWhen ELSE HandlePhase
    /\ cancelLog' = Append(cancelLog, "tripped")
    /\ UNCHANGED <<opts, pc, logging, mutators, classified, wrapper, beforeSendEvent,
                   requestEvent, input,
                   fetchResponse, error,
                   raisedBy, errorEvent, responseAction, responseEvent, terminateEvent, trace, sf,
                   attemptLog, outcome, settled>>

\* cancel(): the first call trips the token and rejects the interception
\* promise, a later call finds _isCancelled set and does nothing
Cancel ==
    /\ Len(cancelLog) < MaxCancelCalls
    /\ IF ~isCancelled
       THEN /\ isCancelled' = TRUE
            /\ aborted' = TRUE
            /\ interception' = PromiseReject(interception,
                                             HttpFetchError(MsgCancelledByUser, input, NoOptions))
            /\ cancelledWhen' = HandlePhase
            /\ cancelLog' = Append(cancelLog, "tripped")
       ELSE /\ cancelLog' = Append(cancelLog, "ignored")
            /\ UNCHANGED <<isCancelled, aborted, interception, cancelledWhen>>
    /\ UNCHANGED <<opts, pc, logging, mutators, classified, wrapper, beforeSendEvent,
                   requestEvent, input,
                   fetchResponse, error,
                   raisedBy, errorEvent, responseAction, responseEvent, terminateEvent, trace, sf,
                   attemptLog, outcome, settled>>

(***************************************************************************)
(* Specifications                                                          *)
(***************************************************************************)
\* options a caller of FetchRequest configures
LifecycleOptions ==
    [timeout : {Given(0), Given(5000)},
     retryCount : {Undefined} \cup {Given(n) : n \in 1..MaxRetryCount},
     retryOnStatusCode : BOOLEAN,
     keepalive : BOOLEAN,
     responseType : {"json", "text"},
     signal : {"none"},
     url : {"url"},
     headers : {Undefined},
     credentials : {Undefined},
     formData : {FALSE}]

\* options a direct caller of safeFetch configures
EngineOptions ==
    [timeout : {Undefined, Given(0), Given(5000)},
     retryCount : {Undefined} \cup {Given(n) : n \in (-1)..MaxEngineRetryCount},
     retryOnStatusCode : BOOLEAN,
     keepalive : BOOLEAN,
     responseType : {"json", "text"},
     signal : {"none"},
     url : {"url"},
     headers : {Undefined},
     credentials : {Undefined},
     formData : {FALSE}]

InitCommon ==
    /\ isCancelled = FALSE
    /\ aborted = FALSE
    /\ cancelledWhen = "never"
    /\ cancelLog = <<>>
    /\ interception = NoPromise
    /\ requestEvent = NoRequestEvent
    /\ wrapper = NewWrapper(NoWireResponse)
    /\ classified \in {Unclassified(response) :
                          response \in IF pc = "classify" THEN ClassifiedResponses
                                       ELSE {NoWireResponse}}
    /\ beforeSendEvent = NoBeforeSendEvent(opts)
    /\ input = opts.url
    /\ fetchResponse = NoResponse
    /\ error = NoError
    /\ raisedBy = "none"
    /\ errorEvent = NoErrorEvent
    /\ responseAction = "none"
    /\ responseEvent = NoResponseEvent
    /\ terminateEvent = NoTerminateEvent
    /\ trace = <<>>
    /\ sf = NoFrame
    /\ attemptLog = <<>>
    /\ outcome = "pending"
    /\ settled = NoSettlement

\* a FetchRequest as its constructor leaves it
Init ==
    /\ opts \in LifecycleOptions
    /\ pc = "idle"
    /\ logging = FALSE
    /\ mutators = {}
    /\ InitCommon

Next ==
    \/ HandleCall
    \/ DispatchRequest
    \/ InterceptionResolved
    \/ InterceptionRejected
    \/ AwaitInterception
    \/ EnterTry
    \/ DispatchBeforeSend
    \/ SafeFetchEnter
    \/ AttemptStart
    \/ FetchResponds
    \/ FetchTimesOut
    \/ FetchAbortedByToken
    \/ FetchFailsNetwork
    \/ FetchFailsOtherwise
    \/ BackoffElapsed
    \/ DispatchResponse
    \/ DispatchError
    \/ WillDelegateErrorHandling
    \/ Finally
    \/ Cancel

Spec == Init /\ [][Next]_vars

\* the lifecycle under fair scheduling: the steps of handle() and safeFetch,
\* the timers and the abort signal are taken when they stay enabled; the
\* network may stay silent and the caller and the listeners that hold an
\* interception are free not to act
FairOptions ==
    [timeout : {Given(0), Given(5000)},
     retryCount : {Given(MaxRetryCount)},
     retryOnStatusCode : {TRUE},
     keepalive : BOOLEAN,
     responseType : {"json"},
     signal : {"none"},
     url : {"url"},
     headers : {Undefined},
     credentials : {Undefined},
     formData : {FALSE}]

InitFair ==
    /\ opts \in FairOptions
    /\ pc = "idle"
    /\ logging = FALSE
    /\ mutators = {}
    /\ InitCommon

ScheduledStep ==
    \/ DispatchRequest
    \/ AwaitInterception
    \/ EnterTry
    \/ DispatchBeforeSend
    \/ SafeFetchEnter
    \/ AttemptStart
    \/ FetchTimesOut
    \/ FetchAbortedByToken
    \/ BackoffElapsed
    \/ DispatchResponse
    \/ DispatchError
    \/ WillDelegateErrorHandling
    \/ Finally

SpecFair == InitFair /\ [][Next]_vars /\ WF_vars(ScheduledStep)

\* options of a request whose listeners rewrite the url and merge options
MutationOptions ==
    [timeout : {Given(0), Given(5000)},
     retryCount : {Given(MaxRetryCount)},
     retryOnStatusCode : {TRUE},
     keepalive : {FALSE},
     responseType : {"json"},
     signal : {"none"},
     url : {"url"},
     headers : {Undefined, Given(ConfiguredHeaders)},
     credentials : {Given("same-origin")},
     formData : BOOLEAN]

\* a FetchRequest whose dispatcher has listeners that call setUrl on the
\* REQUEST event and mergeFetchOptions on the BEFORE_SEND event
InitMutation ==
    /\ opts \in MutationOptions
    /\ pc = "idle"
    /\ logging = FALSE
    /\ mutators = {"setUrl", "mergeFetchOptions"}
    /\ InitCommon

SpecMutation == InitMutation /\ [][Next]_vars

\* the functions of utils and the getters of a wrapper, applied to one wire
\* response
Classify ==
    /\ pc = "classify"
    /\ classified' = Classification(classified.response)
    /\ wrapper' = NewWrapper(classified.response)
    /\ pc' = "classified"
    /\ UNCHANGED <<opts, isCancelled, aborted, cancelledWhen, cancelLog, interception,
                   requestEvent, beforeSendEvent, mutators, input, fetchResponse,
                   error, raisedBy, errorEvent, responseAction, responseEvent, terminateEvent,
                   trace, sf, logging, attemptLog, outcome, settled>>

\* options with every optional field omitted
OmittedOptions ==
    [timeout |-> Undefined, retryCount |-> Undefined, retryOnStatusCode |-> FALSE,
     keepalive |-> FALSE, responseType |-> "json", signal |-> "none", url |-> "url",
     headers |-> Undefined, credentials |-> Undefined, formData |-> FALSE]

InitClassifier ==
    /\ opts = OmittedOptions
    /\ pc = "classify"
    /\ logging = FALSE
    /\ mutators = {}
    /\ InitCommon

\* an interceptor replaces the wire response of the wrapper
SetOriginalResponse ==
    /\ pc = "classified"
    /\ \E newResponse \in ReplacementResponses :
         wrapper' = setOriginalResponse(wrapper, newResponse)
    /\ UNCHANGED <<opts, pc, fetchResponse, error, raisedBy, trace, sf, attemptLog,
                   beforeSendEvent>>
    /\ UNCHANGED <<isCancelled, aborted, cancelledWhen, cancelLog, interception,
                   requestEvent, input, errorEvent, responseAction, responseEvent,
                   terminateEvent, outcome, settled, logging, mutators, classified>>

NextClassifier == Classify \/ SetOriginalResponse

SpecClassifier == InitClassifier /\ [][NextClassifier]_vars

\* safeFetch called on its own, as the exported function it is
InitEngine ==
    /\ opts \in EngineOptions
    /\ pc = "safeFetch"
    /\ logging = TRUE
    /\ mutators = {}
    /\ InitCommon

NextEngine ==
    \/ SafeFetchEnter
    \/ AttemptStart
    \/ FetchResponds
    \/ FetchTimesOut
    \/ FetchFailsNetwork
    \/ FetchFailsOtherwise
    \/ BackoffElapsed

SpecEngine == InitEngine /\ [][NextEngine]_vars

(***************************************************************************)
(* Properties of the lifecycle (specification Spec)                        *)
(***************************************************************************)
Settled == pc = "done"

CancellationMessages == {MsgCancelled, MsgCancelledByUser}

\* C1: whatever path handle() takes (success, recovered error, unrecovered
\* error, cancel() at any moment, also before handle() and while a REQUEST
\* interception is pending), TERMINATE has been dispatched exactly once by
\* the time handle() settles.
C1_TerminateExactlyOnce ==
    Settled => Count("TERMINATE", trace) = 1

\* C2: a cancel() that lands after handle() started and before it settled
\* makes handle() reject with a cancellation error, and isCancelled() is
\* true (no listener threw or rejected the interception on its own).
C2_CancelDuringHandleRejects ==
    ( /\ Settled
      /\ cancelledWhen \in {"request", "pipeline", "engine"}
      /\ raisedBy # "listener"
      /\ interception.reason # RejectReason ) =>
        /\ outcome = "rejected"
        /\ settled.error.name = "HttpFetchError"
        /\ settled.error.message \in CancellationMessages
        /\ isCancelled

\* C3: when a REQUEST listener supplied a response, fetch is never called
\* in that handle(); RESPONSE is dispatched unless the interception was
\* rejected, and when its listeners keep the wrapper handle() resolves with
\* exactly the supplied response.
C3_RequestResponseShortCircuits ==
    requestEvent.response # NoResponse =>
        /\ NetCalls = 0
        /\ pc \notin {"beforeSend", "safeFetch", "attempt", "inflight", "backoff"}
        /\ (Settled /\ responseAction = "kept") =>
                (outcome = "resolved" /\ settled.response = requestEvent.response)
        /\ (Settled /\ responseAction = "none") =>
                (requestEvent.defaultPrevented /\ interception.state = "rejected")

C3_Witness ==
    /\ Settled
    /\ requestEvent.response # NoResponse
    /\ responseAction = "kept"
    /\ outcome = "resolved"
    /\ settled.response = requestEvent.response
    /\ NetCalls = 0

\* C4: when safeFetch raised and an ERROR listener attached a response to
\* the error event, handle() resolves with that response and requestErrored
\* is never invoked in that handle().
C4_RecoveredErrorResolves ==
    (raisedBy = "engine" /\ errorEvent.response # NoResponse) =>
        /\ Count("requestErrored", trace) = 0
        /\ pc \in {"finally", "done"}
        /\ Settled => (outcome = "resolved" /\ settled.response = errorEvent.response)

C4_Witness ==
    /\ Settled
    /\ raisedBy = "engine"
    /\ errorEvent.response # NoResponse
    /\ outcome = "resolved"
    /\ settled.response = errorEvent.response
    /\ NetCalls > 0

\* the place of a step in the order REQUEST, BEFORE_SEND, network, RESPONSE,
\* ERROR, TERMINATE; delegate hooks have no place of their own
PhaseRank(step) ==
    CASE step = "REQUEST" -> 1
      [] step = "BEFORE_SEND" -> 2
      [] step = "fetch" -> 3
      [] step = "RESPONSE" -> 4
      [] step = "ERROR" -> 5
      [] step = "TERMINATE" -> 6
      [] OTHER -> 0

PhaseSteps == {i \in 1..Len(trace) : PhaseRank(trace[i]) > 0}

EngineReturned == pc = "response"
EngineRaised == pc = "error"
EngineEnded == EngineReturned \/ EngineRaised

Attempts == 1..Len(attemptLog)

GotStatusClass(i, class) ==
    attemptLog[i].event = "response" /\ attemptLog[i].class = class

\* C6: a 4xx wire response is never retried: whatever the attempt count and
\* retryOnStatusCode, the attempt that receives it is the last network
\* invocation and the engine returns a failed wrapper with that status.
C6_ClientErrorNeverRetried ==
    \A i \in Attempts :
        GotStatusClass(i, "clientError") =>
            /\ i = Len(attemptLog)
            /\ NetCalls = i
            /\ EngineReturned
            /\ isClientError(fetchResponse.status)

\* C7: with retryOnStatusCode on and keepalive off, when every attempt is
\* answered by a 5xx status the engine makes exactly retryCount network
\* invocations and then returns (does not raise) a wrapper with a 5xx status.
C7_ServerErrorsExhaustAttempts ==
    ( /\ EngineEnded
      /\ sf.retryOnStatusCode
      /\ ~sf.keepalive
      /\ \A i \in Attempts : GotStatusClass(i, "serverError") ) =>
        /\ EngineReturned
        /\ NetCalls = sf.retryCount
        /\ isServerError(fetchResponse.status)

\* C8: with retryOnStatusCode off, a 5xx wire response on any attempt ends
\* the loop: no further network invocation, and the engine returns a failed
\* wrapper with that status instead of raising.
C8_ServerErrorReturnedByDefault ==
    \A i \in Attempts :
        (GotStatusClass(i, "serverError") /\ ~sf.retryOnStatusCode) =>
            /\ i = Len(attemptLog)
            /\ NetCalls = i
            /\ EngineReturned
            /\ isServerError(fetchResponse.status)

AllTimedOut ==
    /\ attemptLog # <<>>
    /\ \A i \in Attempts : attemptLog[i].event = "timer"

OnlyTimeoutsOrTransportFailures ==
    /\ attemptLog # <<>>
    /\ \A i \in Attempts : attemptLog[i].event \in {"timer", "network"}

\* C11: a request configured with retryCount 1 and keepalive off is not
\* retried: when its attempt times out or fails at transport level, exactly
\* one network invocation has been made when the engine raises, which is
\* when handle() rejects.
C11_RetryCountOneNotRetried ==
    ( /\ opts.retryCount = Given(1)
      /\ ~opts.keepalive
      /\ EngineRaised
      /\ OnlyTimeoutsOrTransportFailures ) =>
        NetCalls = 1

\* C12: with keepalive on, whatever retryCount and timeout are configured,
\* the engine makes exactly one network invocation, with no deadline, and
\* then either returns the wrapper of the response it received (any status)
\* or raises on that single attempt; there is no retry and no backoff wait.
C12_KeepaliveSingleAttempt ==
    (opts.keepalive /\ pc # "safeFetch") =>
        /\ sf.retryCount = 1
        /\ sf.timeout = 0
        /\ ~sf.timerArmed
        /\ pc \in {"attempt", "inflight", "response", "error"}
        /\ NetCalls <= 1
        /\ Len(attemptLog) <= 1
        /\ \A i \in Attempts : attemptLog[i].wait = 0 /\ attemptLog[i].event # "timer"
        /\ EngineEnded => (NetCalls = 1 /\ Len(attemptLog) = 1)
        /\ EngineReturned =>
             /\ attemptLog[1].event = "response"
             /\ ~attemptLog[1].threw
             /\ fetchResponse.origin = "wire"
        /\ EngineRaised => attemptLog[1].threw

C12_Witness ==
    /\ opts.keepalive
    /\ opts.retryCount = Given(3)
    /\ opts.timeout = Given(5000)
    /\ opts.retryOnStatusCode
    /\ EngineReturned
    /\ fetchResponse.status = 503
    /\ NetCalls = 1

(***************************************************************************)
(* Cancellation                                                            *)
(***************************************************************************)
\* C13: once cancel() has been called the engine starts no new network
\* attempt: no step taken with the cancelled flag set adds a network
\* invocation (so a cancellation during attempt i or the wait after it is
\* never followed by attempt i+1), and an engine run entered with the token
\* already tripped makes zero network invocations and fails with a
\* cancellation error.
C13_NoAttemptAfterCancel ==
    /\ [][isCancelled => Count("fetch", trace') <= Count("fetch", trace)]_vars
    /\ [](cancelledWhen \in {"before", "request", "pipeline"} => NetCalls = 0)
    /\ []((cancelledWhen \in {"request", "pipeline"} /\ raisedBy = "engine") =>
              error.message \in CancellationMessages)

\* everything a cancel() call must leave alone besides the flag, the token
\* and the interception promise
UntouchedByCancel ==
    <<opts, pc, requestEvent, beforeSendEvent, mutators, classified, wrapper, input, fetchResponse,
      error, raisedBy, errorEvent, responseAction, responseEvent, terminateEvent, trace, sf,
      attemptLog, outcome, settled>>

\* C14: cancel() is idempotent and the cancelled flag is monotone: the first
\* cancel() sets the flag, aborts the token and rejects the interception if
\* one is pending; every later cancel() changes no state, aborts and rejects
\* nothing again; no cancel() raises or touches anything else; and a flag
\* that is set stays set in every later state.
C14_CancelIdempotentMonotone ==
    /\ [](isCancelled <=> cancelLog # <<>>)
    /\ [](isCancelled => aborted)
    /\ [](\A i \in 1..Len(cancelLog) :
            cancelLog[i] = IF i = 1 THEN "tripped" ELSE "ignored")
    /\ [][ /\ isCancelled => isCancelled'
           /\ aborted => aborted'
           /\ cancelLog' # cancelLog =>
                /\ UNCHANGED UntouchedByCancel
                /\ IF isCancelled
                   THEN UNCHANGED <<isCancelled, aborted, interception>>
                   ELSE /\ isCancelled'
                        /\ aborted'
                        /\ interception' =
                             IF interception.state = "pending"
                             THEN [state |-> "rejected",
                                   reason |-> HttpFetchError(MsgCancelledByUser, input, NoOptions),
                                   value |-> NoResponse]
                             ELSE interception
         ]_vars

C14_Witness ==
    /\ cancelLog = <<"tripped", "ignored">>
    /\ isCancelled
    /\ aborted
    /\ interception.state = "rejected"
    /\ interception.reason = HttpFetchError(MsgCancelledByUser, input, NoOptions)
    /\ Settled

(***************************************************************************)
(* Interception by REQUEST listeners                                       *)
(***************************************************************************)
\* the REQUEST listeners left the response slot of the event empty and
\* cancel() was never called: what follows is due to resolve / reject alone
OnlyInterception == requestEvent.response = NoResponse /\ ~isCancelled

\* C15: when a REQUEST listener calls event.resolve(value), handle()
\* resolves with that value and the network is not invoked in that handle().
C15_ResolveIntercepts ==
    (interception.state = "resolved" /\ OnlyInterception) =>
        /\ NetCalls = 0
        /\ Settled => (outcome = "resolved" /\ settled.response = interception.value)

\* C16: when a REQUEST listener calls event.reject(reason), handle() rejects
\* with that reason and the network is not invoked in that handle().
C16_RejectIntercepts ==
    ( /\ interception.state = "rejected"
      /\ interception.reason = RejectReason
      /\ OnlyInterception ) =>
        /\ NetCalls = 0
        /\ Settled => (outcome = "rejected" /\ settled.error = RejectReason)

(***************************************************************************)
(* Mutation of the request by listeners (specification SpecMutation)       *)
(***************************************************************************)
\* C17: if a REQUEST listener rewrites the target with setUrl(u'), every
\* network invocation of that handle() is made to u' and not to the url
\* configured at first.
C17_RewrittenUrlIsFetched ==
    (requestEvent.dispatched /\ input # "url" /\ NetCalls > 0) =>
        /\ sf.url = input
        /\ sf.url # "url"

\* a BEFORE_SEND listener merged options and a network attempt was made
MergedAndSent ==
    beforeSendEvent.dispatched /\ beforeSendEvent.merged # Undefined /\ NetCalls > 0

\* header name of object has value value in the attempts of this handle()
SentHeader(name, object) ==
    name \in DOMAIN sf.headers /\ sf.headers[name] = object[name]

\* the options of the attempts are those handed to BEFORE_SEND, but for the
\* fields the listener merged and the cancellation signal
OtherOptionsPreserved(original) ==
    /\ sf.url = original.url
    /\ sf.keepalive = original.keepalive
    /\ sf.retryOnStatusCode = original.retryOnStatusCode
    /\ sf.responseType = original.responseType
    /\ sf.retryCount = NormalizedRetryCount(original)
    /\ sf.timeout = NormalizedTimeout(original)
    /\ [opts EXCEPT !.headers = original.headers,
                    !.credentials = original.credentials,
                    !.signal = original.signal] = original

SecondErrorEventPrevented ==
    Count("ERROR", trace) = 2 /\ Count("requestErrored", trace) = 0

\* C19: if the network invocation fails and no ERROR listener attaches a
\* response, handle() rejects with the error and requestErrored is invoked
\* exactly once in that handle(), unless an ERROR listener called
\* preventDefault(), in which case it is not invoked.
C19_UnrecoveredErrorDelegated ==
    (Settled /\ raisedBy = "engine" /\ errorEvent.response = NoResponse) =>
        /\ outcome = "rejected"
        /\ settled.error = error
        /\ error # NoError
        /\ Count("requestErrored", trace) =
             IF errorEvent.defaultPrevented \/ SecondErrorEventPrevented
             THEN 0 ELSE 1

\* C20: the TERMINATE event carries exactly one of (response, error), the
\* final one: when handle() resolves it carries the wrapper returned and no
\* error and isSuccessful() is true; when handle() rejects it carries the
\* error and no response and isSuccessful() is false, also when the failure
\* was raised after a wire response had been obtained.
C20_TerminateCarriesFinalOutcome ==
    terminateEvent.dispatched =>
        IF outcome = "resolved"
        THEN /\ terminateEvent.response = settled.response
             /\ terminateEvent.response # NoResponse
             /\ terminateEvent.error = NoError
             /\ isSuccessful(terminateEvent)
        ELSE /\ outcome = "rejected"
             /\ terminateEvent.error = settled.error
             /\ terminateEvent.error # NoError
             /\ terminateEvent.response = NoResponse
             /\ ~isSuccessful(terminateEvent)

(***************************************************************************)
(* Delegate hooks                                                          *)
(***************************************************************************)
\* the position of the only occurrence of step in the trace
IndexOf(step) == CHOOSE i \in 1..Len(trace) : trace[i] = step

\* C21: in every handle() that settles, prepareRequest, requestStarted and
\* requestFinished are each invoked exactly once, in that order,
\* prepareRequest before the REQUEST dispatch and requestFinished after the
\* TERMINATE dispatch, whether handle() resolves or rejects and also when a
\* REQUEST listener short-circuits the network.
C21_DelegateBracketsHandle ==
    Settled =>
        /\ \A hook \in {"prepareRequest", "requestStarted", "requestFinished"} :
             Count(hook, trace) = 1
        /\ Count("REQUEST", trace) = 1
        /\ Count("TERMINATE", trace) = 1
        /\ IndexOf("prepareRequest") < IndexOf("REQUEST")
        /\ IndexOf("prepareRequest") < IndexOf("requestStarted")
        /\ IndexOf("requestStarted") < IndexOf("requestFinished")
        /\ IndexOf("TERMINATE") < IndexOf("requestFinished")

(***************************************************************************)
(* Classification of status codes (specification SpecClassifier)           *)
(***************************************************************************)
\* the band the specification gives a status code
ClaimedBand(c) ==
    CASE c >= 100 /\ c < 200 -> "info"
      [] c >= 200 /\ c < 300 -> "success"
      [] c >= 300 /\ c < 400 -> "redirect"
      [] c >= 400 /\ c < 500 -> "clientError"
      [] OTHER -> "serverError"

\* the bands the functions of utils put the classified code in
Bands(k) ==
    (IF k.type = "error" THEN {} ELSE {k.type})
        \cup (IF k.isClientError THEN {"clientError"} ELSE {})
        \cup (IF k.isServerError THEN {"serverError"} ELSE {})

\* C22: for every integer status code the classifier returns exactly one
\* band: info for 1xx, success for 2xx, redirect for 3xx, clientError for
\* 4xx, serverError for 5xx, and serverError (failed) for every other value,
\* below 100 or from 600 on; no code from 100 on is left without a band.
C22_ClassifierBands ==
    classified.done =>
        /\ Bands(classified) = {ClaimedBand(classified.response.status)}
        /\ classified.type = "error" <=>
               ClaimedBand(classified.response.status) \in {"clientError", "serverError"}

\* C23: for every wrapper, status is the numeric code of the wire response
\* and the predicates are functions of that code alone that agree with the
\* classifier: succeeded iff 2xx, clientError iff 4xx, serverError iff 5xx,
\* failed iff 4xx or 5xx (the error band), serverInfo iff 1xx, and failed is
\* false for every 1xx, 2xx and 3xx code.
C23_WrapperPredicatesFollowCode ==
    classified.done =>
        LET c == classified.response.status IN
        /\ classified.statusCode = c
        /\ classified.succeeded <=> (c >= 200 /\ c < 300)
        /\ classified.clientError <=> (c >= 400 /\ c < 500)
        /\ classified.serverError <=> (c >= 500 /\ c < 600)
        /\ classified.failed <=> (c >= 400 /\ c < 600)
        /\ classified.serverInfo <=> (c >= 100 /\ c < 200)
        /\ (c >= 100 /\ c < 400) => ~classified.failed
        /\ classified.succeeded <=> classified.type = "success"
        /\ classified.serverInfo <=> classified.type = "info"
        /\ classified.failed <=> classified.type = "error"

(***************************************************************************)
(* The error raised by the engine (specification SpecEngine)               *)
(***************************************************************************)
\* C24: every HttpFetchError the engine raises on its final attempt
\* (timeout, transport failure, unexpected failure) records the url of the
\* request, the underlying cause and the index of the attempt at which the
\* failure became terminal: attempt is never left undefined.
C24_EngineErrorRecordsAttempt ==
    (EngineRaised /\ error.message \in {MsgTimeout, MsgNetwork, MsgUnexpected}) =>
        /\ error.name = "HttpFetchError"
        /\ error.url = Given(sf.url)
        /\ error.cause # Undefined
        /\ error.attempt # Undefined
        /\ error.attempt \in {Given(sf.attempt), Given(sf.attempt + 1)}

(***************************************************************************)
(* The ERROR phase                                                         *)
(***************************************************************************)
\* C25: the ERROR event is dispatched only when the network invocation of
\* the engine raised: an exception thrown by a BEFORE_SEND or RESPONSE
\* listener (or a delegate hook) leaves handle() unchanged, with no ERROR
\* dispatch, and no ERROR listener can turn it into a resolved response.
C25_ErrorPhaseOnlyForEngineFailures ==
    /\ Count("ERROR", trace) > 0 => raisedBy = "engine"
    /\ raisedBy = "listener" =>
         /\ Count("ERROR", trace) = 0
         /\ errorEvent = NoErrorEvent
         /\ Settled => (outcome = "rejected" /\ settled.error = ListenerError)

\* the delegate hooks dispatchResponseEvent can report to
ResponseHooks == {"requestPreventedHandlingResponse", "requestSucceededWithResponse",
                  "requestFailedWithResponse"}
HookCalls == Cardinality({i \in 1..Len(trace) : trace[i] \in ResponseHooks})

\* C26: once an ERROR listener has recovered the failure with a response, a
\* RESPONSE dispatch and its delegate hook follow the ERROR dispatch before
\* TERMINATE, that is before handle() settles
C26_RecoveredResponseIsDispatched ==
    (Settled /\ isRecovered(errorEvent)) =>
        \E i, j, k \in 1..Len(trace) :
            /\ i < j /\ j < k
            /\ trace[i] = "ERROR"
            /\ trace[j] = "RESPONSE"
            /\ trace[k] \in ResponseHooks

\* the classifier puts the wrapper's status in the success or the info class
SuccessOrInfoClass(w) == mapStatusToResponseType(w.status) \in {"success", "info"}

\* C27: when the RESPONSE listeners returned without preventing the default,
\* the hook reported to is the success hook exactly when the wrapper the
\* event holds at the end of the dispatch is of the success or info class,
\* and the failure hook otherwise
C27_HookFollowsFinalWrapper ==
    (responseEvent.dispatched /\ responseAction # "threw"
                              /\ ~responseEvent.defaultPrevented) =>
        IF SuccessOrInfoClass(responseEvent.response)
        THEN Count("requestSucceededWithResponse", trace) = 1
             /\ Count("requestFailedWithResponse", trace) = 0
        ELSE Count("requestFailedWithResponse", trace) = 1
             /\ Count("requestSucceededWithResponse", trace) = 0

\* exactly one response hook was reported to, once, and it is the
\* prevented-handling hook exactly when the default was prevented
OneHookByPrevention ==
    /\ HookCalls = 1
    /\ Count("requestPreventedHandlingResponse", trace) = 1
           <=> responseEvent.defaultPrevented

\* C28 as stated: every RESPONSE dispatch reports to exactly one hook, once,
\* the prevented-handling hook iff a listener prevented the default
C28_OneHookPerResponsePhase ==
    responseEvent.dispatched => OneHookByPrevention

\* C28 amended: every RESPONSE dispatch whose listeners return normally
\* reports to exactly one hook, once, the prevented-handling hook iff a
\* listener prevented the default; a dispatch whose listener throws reports
\* to none
C28_OneHookPerResponsePhaseThatReturns ==
    /\ (responseEvent.dispatched /\ responseAction # "threw") => OneHookByPrevention
    /\ (responseEvent.dispatched /\ responseAction = "threw") => HookCalls = 0
    /\ ~responseEvent.dispatched => HookCalls = 0

C28_Witness ==
    /\ Settled
    /\ responseEvent.dispatched
    /\ responseEvent.defaultPrevented
    /\ responseAction = "replaced"
    /\ Count("requestPreventedHandlingResponse", trace) = 1

\* C29: safeFetch is entered at most once during a handle() call; it is not
\* entered when the REQUEST or the BEFORE_SEND event carries a response, and
\* the RESPONSE event is then dispatched with that response; safeFetch is
\* never entered after an ERROR dispatch
C29_EngineRunsAtMostOnce ==
    /\ Count("safeFetch", trace) <= 1
    /\ (hasResponse(requestEvent) \/ hasResponse(beforeSendEvent)) =>
           Count("safeFetch", trace) = 0
    /\ (hasResponse(requestEvent) /\ responseEvent.dispatched) =>
           responseEvent.handedIn = requestEvent.response
    /\ (hasResponse(beforeSendEvent) /\ responseEvent.dispatched) =>
           responseEvent.handedIn = beforeSendEvent.response
    /\ (Settled /\ Count("requestStarted", trace) > 0
                /\ (hasResponse(requestEvent) \/ hasResponse(beforeSendEvent))) =>
           responseEvent.dispatched
    /\ \A i, j \in 1..Len(trace) :
           (trace[i] = "ERROR" /\ trace[j] = "safeFetch") => j < i

C29_Witness ==
    /\ Settled
    /\ hasResponse(beforeSendEvent)
    /\ responseEvent.dispatched
    /\ responseEvent.handedIn = beforeSendEvent.response
    /\ Count("ERROR", trace) > 0
    /\ Count("safeFetch", trace) = 0

\* C30: once an attempt has received a wire response of the success or info
\* class, fetch is not called again by that safeFetch call, whatever the body
\* and the requested responseType are
C30_SuccessEndsAttemptLoop ==
    \A i \in 1..Len(attemptLog) :
        (attemptLog[i].event = "response" /\ attemptLog[i].class \in {"success", "info"})
            => NetCalls <= i

\* C31: a wire response whose status is outside [100,600), read without a
\* parse failure while retryOnStatusCode is off, ends the loop like a server
\* error: it is the last network invocation and the engine returns a wrapper
\* with that status
C31_OutOfRangeStatusIsServerError ==
    \A i \in Attempts :
        ( /\ GotStatusClass(i, "otherError")
          /\ ~attemptLog[i].threw
          /\ ~sf.retryOnStatusCode ) =>
            /\ i = Len(attemptLog)
            /\ NetCalls = i
            /\ EngineReturned
            /\ fetchResponse.status = 600

\* attempt i of the log (index i - 1 of the loop) was not the final one
NonFinalAttempt(i) == i < sf.retryCount

\* C32: the wait after attempt index i is 1000 * (i + 1) ms after a transport
\* failure of whatever message and 500 * (i + 1) ms after a status that is
\* retried, at a non-final attempt; no wait follows the final attempt
C32_LinearBackoff ==
    \A i \in Attempts :
        LET entry == attemptLog[i] IN
        /\ (entry.event \in {"network", "other"} /\ NonFinalAttempt(i)) =>
               entry.wait = NetworkBackoffUnit * i
        /\ ( /\ entry.event = "response" /\ ~entry.threw /\ NonFinalAttempt(i)
             /\ (i < Len(attemptLog) \/ pc = "backoff") ) =>
               entry.wait = StatusBackoffUnit * i
        /\ ~NonFinalAttempt(i) => entry.wait = 0

\* the timeout the caller asked for, 45000 ms when omitted
RequestedTimeout == OrDefault(opts.timeout, DefaultTimeout)

C34_PreventedRequestAwaitsInterception ==
    /\ (requestEvent.defaultPrevented /\ interception.state = "pending") =>
           /\ pc = "intercepted"
           /\ Count("BEFORE_SEND", trace) = 0
           /\ NetCalls = 0
    /\ (requestEvent.defaultPrevented /\ interception.state = "rejected") =>
           /\ pc \in {"intercepted", "done"}
           /\ Count("requestStarted", trace) = 0
           /\ Count("BEFORE_SEND", trace) = 0
           /\ NetCalls = 0
           /\ Settled => (outcome = "rejected" /\ settled.error = interception.reason)
    /\ (requestEvent.defaultPrevented /\ interception.state = "resolved") =>
           /\ pc \notin {"intercepted", "started"} => Count("requestStarted", trace) = 1
           /\ Settled => Count("TERMINATE", trace) = 1

C34_Witness ==
    /\ Settled
    /\ requestEvent.defaultPrevented
    /\ interception.state = "rejected"
    /\ settled.error = HttpFetchError(MsgCancelledByUser, input, NoOptions)
    /\ trace = <<"prepareRequest", "REQUEST">>

\* C35: the ERROR event is dispatched at most once during a handle() call
C35_ErrorDispatchedAtMostOnce ==
    Count("ERROR", trace) <= 1

\* C36: safeFetch calls fetch at most retryCount times, the loop index never
\* passes retryCount - 1, and the run ends by returning a wrapper or by
\* raising the timeout, network or unexpected error: the error thrown after
\* the loop is never raised
C36_AttemptLoopBounded ==
    pc # "safeFetch" =>
        /\ sf.retryCount >= 1
        /\ NetCalls <= sf.retryCount
        /\ sf.attempt <= sf.retryCount - 1
        /\ Len(attemptLog) <= sf.retryCount
        /\ EngineRaised =>
             /\ error.message \in {MsgTimeout, MsgNetwork, MsgUnexpected}
             /\ error.message # MsgFallthrough
             /\ sf.attempt = sf.retryCount - 1
        /\ EngineReturned => fetchResponse.origin = "wire"

C36_Witness ==
    /\ EngineRaised
    /\ opts.retryCount = Given(0)
    /\ sf.retryCount = 3
    /\ NetCalls = 3
    /\ error.message = MsgUnexpected
    /\ \E i \in Attempts : attemptLog[i].event = "timer"

\* C37: on an instance that has been cancelled every call of handle(), the
\* first one and each later one, rejects at once with the cancellation
\* error: nothing is dispatched, no delegate hook is invoked and the network
\* is not invoked
C37_CancelledInstanceRejectsAtOnce ==
    [][ (isCancelled /\ pc \in {"idle", "done"} /\ cancelLog' = cancelLog) =>
            /\ pc' = "done"
            /\ outcome' = "rejected"
            /\ settled' = [response |-> NoResponse,
                           error |-> HttpFetchError(MsgCancelled, input, NoOptions)]
            /\ trace' = <<>>
            /\ requestEvent' = NoRequestEvent
            /\ errorEvent' = NoErrorEvent
            /\ terminateEvent' = NoTerminateEvent ]_vars

C37_Witness ==
    /\ Settled
    /\ isCancelled
    /\ cancelledWhen = "engine"
    /\ trace = <<>>
    /\ settled.error = HttpFetchError(MsgCancelled, input, NoOptions)

\* C38: once setOriginalResponse(r') was called on a wrapper every status
\* accessor reads r': status and statusCode are the code of r', headers and
\* statusText are those of r', and ok agrees with succeeded
C38_AccessorsReadReplacedResponse ==
    wrapper.replaced =>
        /\ statusOf(wrapper) = wrapper.originalResponse.status
        /\ statusCodeOf(wrapper) = wrapper.originalResponse.status
        /\ headersOf(wrapper) = wrapper.originalResponse
        /\ statusTextOf(wrapper) = wrapper.originalResponse
        /\ okOf(wrapper) <=> succeeded(wrapper.response)
        /\ clientError(wrapper.response) <=> clientError(wrapper.originalResponse)
        /\ serverError(wrapper.response) <=> serverError(wrapper.originalResponse)
        /\ failed(wrapper.response) <=> failed(wrapper.originalResponse)

\* the engine is running / handle() is past the REQUEST phase and not settled
EngineRunning == pc \in {"safeFetch", "attempt", "inflight", "backoff"}
PastRequestPhase == pc \notin {"idle", "request", "intercepted", "done"}

====
